---------------------------- MODULE Spec2Model ----------------------------
(***************************************************************************)
(* RedisService (src/src/redis.service.ts): a typed caching facade over an *)
(* ioredis client.  The model keeps the store (string keys with an         *)
(* optional expiry, one hash), the position and the locals of each caller  *)
(* inside a facade method, and what the caller observed: the result, the   *)
(* requests sent to the store client and the log entries written.          *)
(*                                                                         *)
(* JavaScript values are records of one shape, texts are sequences of      *)
(* one-character strings, and JSON.stringify / JSON.parse are computed     *)
(* character by character.                                                 *)
(***************************************************************************)
EXTENDS Integers, Sequences, FiniteSets, TLC

(***************************************************************************)
(* JavaScript values.                                                      *)
(***************************************************************************)
JsValue(t, n, s, ks, xs) == [t |-> t, n |-> n, s |-> s, ks |-> ks, xs |-> xs]

Undefined == JsValue("undefined", 0, <<>>, <<>>, <<>>)
Null == JsValue("null", 0, <<>>, <<>>, <<>>)
False == JsValue("boolean", 0, <<>>, <<>>, <<>>)
True == JsValue("boolean", 1, <<>>, <<>>, <<>>)
Num(n) == JsValue("number", n, <<>>, <<>>, <<>>)
Str(s) == JsValue("string", 0, s, <<>>, <<>>)
Arr(xs) == JsValue("array", 0, <<>>, <<>>, xs)
Obj(ks, xs) == JsValue("object", 0, <<>>, ks, xs)

\* 'OK', the reply of a successful SET / HMSET
OK == Str(<<"O", "K">>)

(***************************************************************************)
(* Texts.  NoText is what JSON.stringify gives for undefined (no text at   *)
(* all); Nil is the store's reply for a missing key or field.              *)
(***************************************************************************)
NoText == <<"undefined">>
Nil == <<"nil">>

Digits == <<"0", "1", "2", "3", "4", "5", "6", "7", "8", "9">>

IsDigit(c) == \E i \in 1..10 : Digits[i] = c

DigitValue(c) == (CHOOSE i \in 1..10 : Digits[i] = c) - 1

RECURSIVE NatText(_)
NatText(n) == IF n < 10 THEN <<Digits[n + 1]>>
              ELSE NatText(n \div 10) \o <<Digits[(n % 10) + 1]>>

NumberText(n) == IF n < 0 THEN <<"-">> \o NatText(-n) ELSE NatText(n)

RECURSIVE Quote(_)
Quote(s) ==
    IF s = <<>> THEN <<>>
    ELSE (IF Head(s) \in {"\"", "\\"} THEN <<"\\", Head(s)>> ELSE <<Head(s)>>)
         \o Quote(Tail(s))

StringText(s) == <<"\"">> \o Quote(s) \o <<"\"">>

RECURSIVE JSONstringify(_)
RECURSIVE ArrayText(_)
RECURSIVE MembersText(_, _, _)

\* the elements of an array, comma separated; an undefined element is "null"
ArrayText(xs) ==
    IF xs = <<>> THEN <<>>
    ELSE LET x == Head(xs)
             t == IF x.t = "undefined" THEN JSONstringify(Null)
                  ELSE JSONstringify(x)
         IN  t \o (IF Tail(xs) = <<>> THEN <<>> ELSE <<",">> \o ArrayText(Tail(xs)))

\* the members of an object; a member whose value is undefined is left out
MembersText(ks, xs, first) ==
    IF ks = <<>> THEN <<>>
    ELSE IF Head(xs).t = "undefined" THEN MembersText(Tail(ks), Tail(xs), first)
    ELSE (IF first THEN <<>> ELSE <<",">>)
         \o StringText(Head(ks)) \o <<":">> \o JSONstringify(Head(xs))
         \o MembersText(Tail(ks), Tail(xs), FALSE)

JSONstringify(v) ==
    CASE v.t = "undefined" -> NoText
      [] v.t = "null" -> <<"n", "u", "l", "l">>
      [] v.t = "boolean" -> IF v.n = 1 THEN <<"t", "r", "u", "e">>
                            ELSE <<"f", "a", "l", "s", "e">>
      [] v.t = "number" -> NumberText(v.n)
      [] v.t = "string" -> StringText(v.s)
      [] v.t = "array" -> <<"[">> \o ArrayText(v.xs) \o <<"]">>
      [] v.t = "object" -> <<"{">> \o MembersText(v.ks, v.xs, TRUE) \o <<"}">>

(***************************************************************************)
(* JSON.parse: a recursive descent over the text.  A parse step gives      *)
(* [ok, v, rest]; JSONparse gives [ok, v], ok = FALSE standing for the     *)
(* SyntaxError it throws.                                                  *)
(***************************************************************************)
Parsed(v, rest) == [ok |-> TRUE, v |-> v, rest |-> rest]
ParseFail == [ok |-> FALSE, v |-> Undefined, rest |-> <<>>]

StartsWith(s, w) == Len(s) >= Len(w) /\ SubSeq(s, 1, Len(w)) = w

Drop(s, n) == SubSeq(s, n + 1, Len(s))

\* the digits at the front of s, as [n, len]
RECURSIVE ParseDigits(_, _, _)
ParseDigits(s, n, len) ==
    IF s # <<>> /\ IsDigit(Head(s))
    THEN ParseDigits(Tail(s), 10 * n + DigitValue(Head(s)), len + 1)
    ELSE [n |-> n, len |-> len]

ParseNumber(s) ==
    LET neg == s # <<>> /\ Head(s) = "-"
        body == IF neg THEN Tail(s) ELSE s
        d == ParseDigits(body, 0, 0)
    IN  IF d.len = 0 \/ (d.len > 1 /\ Head(body) = "0") THEN ParseFail
        ELSE Parsed(Num(IF neg THEN -d.n ELSE d.n), Drop(body, d.len))

\* the characters of a string literal after its opening quote
RECURSIVE ParseChars(_, _)
ParseChars(s, acc) ==
    IF s = <<>> THEN ParseFail
    ELSE IF Head(s) = "\"" THEN Parsed(Str(acc), Tail(s))
    ELSE IF Head(s) = "\\"
         THEN IF Len(s) >= 2 /\ s[2] \in {"\"", "\\"}
              THEN ParseChars(Drop(s, 2), Append(acc, s[2]))
              ELSE ParseFail
    ELSE ParseChars(Tail(s), Append(acc, Head(s)))

ParseString(s) ==
    IF s # <<>> /\ Head(s) = "\"" THEN ParseChars(Tail(s), <<>>) ELSE ParseFail

RECURSIVE ParseValue(_)
RECURSIVE ParseElements(_, _)
RECURSIVE ParseMembers(_, _, _)

\* after "[" and at least one element may follow
ParseElements(s, acc) ==
    LET e == ParseValue(s)
    IN  IF ~e.ok \/ e.rest = <<>> THEN ParseFail
        ELSE IF Head(e.rest) = "]" THEN Parsed(Arr(Append(acc, e.v)), Tail(e.rest))
        ELSE IF Head(e.rest) = "," THEN ParseElements(Tail(e.rest), Append(acc, e.v))
        ELSE ParseFail

ParseMembers(s, ks, xs) ==
    LET k == ParseString(s)
    IN  IF ~k.ok \/ k.rest = <<>> \/ Head(k.rest) # ":" THEN ParseFail
        ELSE LET e == ParseValue(Tail(k.rest))
             IN  IF ~e.ok \/ e.rest = <<>> THEN ParseFail
                 ELSE IF Head(e.rest) = "}"
                      THEN Parsed(Obj(Append(ks, k.v.s), Append(xs, e.v)), Tail(e.rest))
                 ELSE IF Head(e.rest) = ","
                      THEN ParseMembers(Tail(e.rest), Append(ks, k.v.s), Append(xs, e.v))
                 ELSE ParseFail

ParseValue(s) ==
    IF s = <<>> THEN ParseFail
    ELSE IF StartsWith(s, <<"n", "u", "l", "l">>) THEN Parsed(Null, Drop(s, 4))
    ELSE IF StartsWith(s, <<"t", "r", "u", "e">>) THEN Parsed(True, Drop(s, 4))
    ELSE IF StartsWith(s, <<"f", "a", "l", "s", "e">>) THEN Parsed(False, Drop(s, 5))
    ELSE IF Head(s) = "-" \/ IsDigit(Head(s)) THEN ParseNumber(s)
    ELSE IF Head(s) = "\"" THEN ParseString(s)
    ELSE IF Head(s) = "["
         THEN IF Len(s) >= 2 /\ s[2] = "]" THEN Parsed(Arr(<<>>), Drop(s, 2))
              ELSE ParseElements(Tail(s), <<>>)
    ELSE IF Head(s) = "{"
         THEN IF Len(s) >= 2 /\ s[2] = "}" THEN Parsed(Obj(<<>>, <<>>), Drop(s, 2))
              ELSE ParseMembers(Tail(s), <<>>, <<>>)
    ELSE ParseFail

JSONparse(text) ==
    LET r == ParseValue(text)
    IN  IF r.ok /\ r.rest = <<>> THEN [ok |-> TRUE, v |-> r.v]
        ELSE [ok |-> FALSE, v |-> Undefined]

(***************************************************************************)
(* Failures.  What the store client rejects with is any JavaScript value:  *)
(* an Error instance or something else (a string, a plain object).         *)
(* text is the failure's toString().                                       *)
(***************************************************************************)
Failure(isError, text) == [isError |-> isError, text |-> text]

NoFailure == Failure(FALSE, "")
ConnectionError == Failure(TRUE, "Error: Connection is closed.")
ThrownString == Failure(FALSE, "READONLY")
SyntaxError == Failure(TRUE, "SyntaxError: Unexpected token in JSON")

Failures == {ConnectionError, ThrownString}
Outcomes == {NoFailure} \union Failures

(***************************************************************************)
(* The ttl argument of set: null (the default) or a number.                *)
(***************************************************************************)
NullTtl == [isNumber |-> FALSE, n |-> 0]
Ttl(n) == [isNumber |-> TRUE, n |-> n]

(***************************************************************************)
(* Bounds of the model and its input sets.                                 *)
(***************************************************************************)
MaxTtl == 2
MaxPages == 3
MaxList == 2

Callers == {"c1", "c2"}
Keys == {"k1", "k2"}
Hashes == {"h1", "h2"}
Fields == {<<"x">>, <<"y">>}
Cursors == {"0", "17", "42"}
Ttls == {Ttl(n) : n \in -1..MaxTtl}
TtlArgs == {NullTtl} \union Ttls

\* null, the falsy values, the empty containers, and a nested truthy value
JsonValues ==
    {Null, False, Num(0), Str(<<>>), Arr(<<>>), Obj(<<>>, <<>>),
     Obj(<< <<"a">> >>, << Arr(<< Num(1), Str(<<"\"">>) >>) >>)}
Values == {Undefined, Null, Num(0)}

\* the non-empty lists of at most MaxList elements of S (an element may repeat)
ListsOf(S) == UNION {[1..n -> S] : n \in 1..MaxList}

\* the pages a SCAN reply may carry: empty, one key, a key served twice
Pages == {<<>>, <<"k1">>, <<"k2", "k1">>, <<"k2", "k2">>}

\* flat field, text, .. lists for hmset: texts as transformArrayToRedisHash
\* builds them, and texts that are no JSON
FlatLists ==
    {<<<<"x">>, JSONstringify(Num(1))>>,
     <<<<"y">>, <<"x">>>>,
     <<<<"x">>, JSONstringify(Null), <<"y">>, JSONstringify(Num(1))>>,
     <<<<"x">>, <<>>, <<"x">>, JSONstringify(Num(0))>>}

VARIABLES
    kv,       \* the store's string keys: key -> [text, ex]; ex = 0: no expiry
    hashes,   \* the store's hashes: hash -> field -> text (Nil: no such field)
    frame,    \* per caller: the facade call in progress or just completed
    lastSet   \* history: per key, the value of the last write still in place

vars == <<kv, hashes, frame, lastSet>>

NoEntry == [text |-> Nil, ex |-> 0]
Entry(text, ex) == [text |-> text, ex |-> ex]

(***************************************************************************)
(* A request to the store client and a log entry, as the caller's test     *)
(* double would record them.                                               *)
(***************************************************************************)
Req(cmd, arg, text, ex, fail) ==
    [cmd |-> cmd, arg |-> arg, text |-> text, ex |-> ex, fail |-> fail]

LogEntry(message, payload, error) ==
    [message |-> message, payload |-> payload, error |-> error]

\* a mapping that holds no field
NoFields == [fd \in Fields |-> Undefined]

IdleFrame ==
    [op |-> "none", pc |-> "idle",
     key |-> "", value |-> Undefined, ttl |-> NullTtl, cacheNullable |-> TRUE,
     keys |-> <<>>, field |-> <<>>, fields |-> <<>>, values |-> <<>>,
     hash |-> "", pattern |-> "",
     outcome |-> "pending", kind |-> "none", retv |-> Undefined, retn |-> 0,
     retseq |-> <<>>, retmap |-> NoFields,
     raised |-> NoFailure, reqs |-> <<>>, logs |-> <<>>,
     cachedData |-> Undefined, cursor |-> "0", found |-> <<>>, replies |-> <<>>,
     turns |-> 0]

Idle(p) == frame[p].pc = "idle"

\* the call returns a value / a number / a sequence / a mapping to its caller
Returns(f, v) ==
    [f EXCEPT !.pc = "done", !.outcome = "return", !.kind = "value", !.retv = v]
ReturnsNumber(f, n) ==
    [f EXCEPT !.pc = "done", !.outcome = "return", !.kind = "number", !.retn = n]
ReturnsSeq(f, s) ==
    [f EXCEPT !.pc = "done", !.outcome = "return", !.kind = "sequence", !.retseq = s]
ReturnsMap(f, m) ==
    [f EXCEPT !.pc = "done", !.outcome = "return", !.kind = "mapping", !.retmap = m]
\* the call rejects with failure e
Raises(f, e) == [f EXCEPT !.pc = "done", !.outcome = "raise", !.raised = e]

Sent(f, r) == [f EXCEPT !.reqs = Append(@, r)]
Logged(f, l) == [f EXCEPT !.logs = Append(@, l)]

(***************************************************************************)
(* get, lines 11-26.  data is the reply of redis.get (Nil for null); out   *)
(* is the failure redis.get rejected with, or NoFailure.                   *)
(***************************************************************************)
getLog(key, e) ==
    LogEntry("RedisCache - An error occurred while trying to get from redis cache.",
             {"cacheKey", "error"}, e.text)

\* Truthy taken of the parsed value instead of the text: if (JSON.parse(data))
TruthyParsed(data) ==
    /\ data # Nil
    /\ data # <<>>
    /\ LET r == JSONparse(data)
       IN  r.ok => ~(\/ r.v.t = "null"
                     \/ (r.v.t \in {"boolean", "number"} /\ r.v.n = 0)
                     \/ (r.v.t = "string" /\ r.v.s = <<>>))

\* if (data): null and the empty string are falsy
Truthy(data) == data # Nil /\ data # <<>>

getBody(f, key, data, out) ==
    LET g == Sent(f, Req("GET", key, <<>>, 0, out))
    IN  IF out # NoFailure THEN Returns(Logged(g, getLog(key, out)), Undefined)
        ELSE IF Truthy(data)
             THEN LET r == JSONparse(data)
                  IN  IF r.ok THEN Returns(g, r.v)
                      ELSE Returns(Logged(g, getLog(key, SyntaxError)), Undefined)
        ELSE Returns(g, Undefined)

get(p, key, out) ==
    /\ Idle(p)
    /\ frame' = [frame EXCEPT ![p] =
                    getBody([IdleFrame EXCEPT !.op = "get", !.key = key],
                            key, kv[key].text, out)]
    /\ UNCHANGED <<kv, hashes, lastSet>>

(***************************************************************************)
(* set, lines 28-64.                                                       *)
(***************************************************************************)
\* LooseNull as value === undefined
StrictUndefined(value) == value.t = "undefined"

\* value == null
LooseNull(value) == value.t \in {"null", "undefined"}

\* setSkips with ttl < 0 for ttl <= 0
setSkipsNegative(value, seconds, cacheNullable) ==
    \/ value = Undefined
    \/ (~cacheNullable /\ value.t \in {"null", "undefined"})
    \/ (seconds.isNumber /\ seconds.n < 0)

\* the three early returns, lines 34-44
setSkips(value, seconds, cacheNullable) ==
    \/ value = Undefined
    \/ (~cacheNullable /\ LooseNull(value))
    \/ (seconds.isNumber /\ seconds.n <= 0)

\* !ttl
NoTtl(seconds) == ~seconds.isNumber \/ seconds.n = 0

\* setReq without the 'EX', ttl arguments of line 50
setReqNoExpiry(key, value, seconds, out) ==
    Req("SET", key, JSONstringify(value), 0, out)

\* the request of lines 47-51
setReq(key, value, seconds, out) ==
    Req("SET", key, JSONstringify(value), IF NoTtl(seconds) THEN 0 ELSE seconds.n, out)

setLog(key, e) ==
    LogEntry("RedisCache - An error occurred while trying to set in redis cache.",
             {"cacheKey", "error"}, e.text)

\* lines 46-63 once redis.set has answered
setBody(f, key, value, seconds, out) ==
    LET g == Sent(f, setReq(key, value, seconds, out))
    IN  IF out = NoFailure THEN Returns(g, OK)
        ELSE IF out.isError THEN Returns(Logged(g, setLog(key, out)), Undefined)
        ELSE Returns(g, Undefined)

\* storeSet as SET .. NX: a key that holds a text keeps it, the first write wins
storeSetIfAbsent(key, r) ==
    IF kv[key].text = Nil THEN [kv EXCEPT ![key] = Entry(r.text, r.ex)] ELSE kv

\* SET key text [EX seconds] in the store
storeSet(key, r) == [kv EXCEPT ![key] = Entry(r.text, r.ex)]

set(p, key, value, seconds, cacheNullable, out) ==
    LET f == [IdleFrame EXCEPT !.op = "set", !.key = key, !.value = value,
                               !.ttl = seconds, !.cacheNullable = cacheNullable]
    IN  /\ Idle(p)
        /\ IF setSkips(value, seconds, cacheNullable)
           THEN /\ out = NoFailure
                /\ frame' = [frame EXCEPT ![p] = Returns(f, Undefined)]
                /\ UNCHANGED <<kv, lastSet>>
           ELSE /\ frame' = [frame EXCEPT ![p] = setBody(f, key, value, seconds, out)]
                /\ IF out = NoFailure
                   THEN /\ kv' = storeSet(key, setReq(key, value, seconds, out))
                        /\ lastSet' = [lastSet EXCEPT ![key] = value]
                   ELSE UNCHANGED <<kv, lastSet>>
        /\ UNCHANGED hashes

(***************************************************************************)
(* delete and deleteMany, lines 66-97.                                     *)
(***************************************************************************)
Range(seq) == {seq[i] : i \in DOMAIN seq}

\* DEL: the number of keys removed
storeDelCount(keys) == Cardinality({k \in Range(keys) : kv[k].text # Nil})

storeDel(keys) == [k \in Keys |-> IF k \in Range(keys) THEN NoEntry ELSE kv[k]]

deleteLog(e) ==
    LogEntry("RedisCache - An error occurred while trying to delete from redis cache.",
             {"cacheKey", "error"}, e.text)

deleteManyLog(e) ==
    LogEntry("An error occurred while trying to delete multiple keys from redis cache.",
             {"error"}, e.text)

\* deleteBody with the catch of hdel: it logs and rethrows
deleteBodyRethrows(f, arg, count, entry, out) ==
    LET g == Sent(f, Req("DEL", arg, <<>>, 0, out))
    IN  IF out = NoFailure THEN ReturnsNumber(g, count)
        ELSE Raises(IF out.isError THEN Logged(g, entry) ELSE g, out)

\* lines 67-80 and 84-96 once redis.del has answered
deleteBody(f, arg, count, entry, out) ==
    LET g == Sent(f, Req("DEL", arg, <<>>, 0, out))
    IN  IF out = NoFailure THEN ReturnsNumber(g, count)
        ELSE IF out.isError THEN ReturnsNumber(Logged(g, entry), 0)
        ELSE ReturnsNumber(g, 0)

delete(p, key, out) ==
    /\ Idle(p)
    /\ frame' = [frame EXCEPT ![p] =
                    deleteBody([IdleFrame EXCEPT !.op = "delete", !.key = key],
                               key, storeDelCount(<<key>>), deleteLog(out), out)]
    /\ IF out = NoFailure
       THEN /\ kv' = storeDel(<<key>>)
            /\ lastSet' = [lastSet EXCEPT ![key] = Undefined]
       ELSE UNCHANGED <<kv, lastSet>>
    /\ UNCHANGED hashes

deleteMany(p, keys, out) ==
    /\ Idle(p)
    /\ frame' = [frame EXCEPT ![p] =
                    deleteBody([IdleFrame EXCEPT !.op = "deleteMany", !.keys = keys],
                               "", storeDelCount(keys), deleteManyLog(out), out)]
    /\ IF out = NoFailure
       THEN /\ kv' = storeDel(keys)
            /\ lastSet' = [k \in Keys |-> IF k \in Range(keys) THEN Undefined
                                          ELSE lastSet[k]]
       ELSE UNCHANGED <<kv, lastSet>>
    /\ UNCHANGED hashes

(***************************************************************************)
(* getOrSet, lines 99-112: the awaited get (line 105), then the awaited    *)
(* set (line 110).  getOrSet runs up to the request of set's redis.set;    *)
(* getOrSetSet is the rest, once the store has answered.                   *)
(***************************************************************************)
\* getOrSet with if (cachedData) for if (cachedData !== undefined)
getOrSetTruthy(p, key, value, seconds, cacheNullable, out) ==
    LET f == [IdleFrame EXCEPT !.op = "getOrSet", !.key = key, !.value = value,
                               !.ttl = seconds, !.cacheNullable = cacheNullable]
        r == getBody(f, key, kv[key].text, out)
        g == [r EXCEPT !.cachedData = r.retv]
    IN  /\ Idle(p)
        /\ frame' = [frame EXCEPT ![p] =
                        IF g.cachedData \notin {Undefined, Null, False, Num(0), Str(<<>>)}
                        THEN Returns(g, g.cachedData)
                        ELSE IF setSkips(value, seconds, cacheNullable)
                             THEN Returns(g, value)
                        ELSE [g EXCEPT !.pc = "set", !.outcome = "pending"]]
        /\ UNCHANGED <<kv, hashes, lastSet>>

\* getOrSet without the early return of lines 106-108: it writes on a hit too
getOrSetAlwaysSets(p, key, value, seconds, cacheNullable, out) ==
    LET f == [IdleFrame EXCEPT !.op = "getOrSet", !.key = key, !.value = value,
                               !.ttl = seconds, !.cacheNullable = cacheNullable]
        r == getBody(f, key, kv[key].text, out)
        g == [r EXCEPT !.cachedData = r.retv]
    IN  /\ Idle(p)
        /\ frame' = [frame EXCEPT ![p] =
                        IF setSkips(value, seconds, cacheNullable)
                        THEN Returns(g, IF g.cachedData # Undefined THEN g.cachedData
                                        ELSE value)
                        ELSE [g EXCEPT !.pc = "set", !.outcome = "pending"]]
        /\ UNCHANGED <<kv, hashes, lastSet>>

getOrSet(p, key, value, seconds, cacheNullable, out) ==
    LET f == [IdleFrame EXCEPT !.op = "getOrSet", !.key = key, !.value = value,
                               !.ttl = seconds, !.cacheNullable = cacheNullable]
        r == getBody(f, key, kv[key].text, out)
        g == [r EXCEPT !.cachedData = r.retv]
    IN  /\ Idle(p)
        /\ frame' = [frame EXCEPT ![p] =
                        IF g.cachedData # Undefined THEN Returns(g, g.cachedData)
                        ELSE IF setSkips(value, seconds, cacheNullable)
                             THEN Returns(g, value)
                        ELSE [g EXCEPT !.pc = "set", !.outcome = "pending"]]
        /\ UNCHANGED <<kv, hashes, lastSet>>

\* getOrSetSet as return await this.set(..): the caller gets set's result
getOrSetSetResult(p, out) ==
    LET f == frame[p]
    IN  /\ f.pc = "set"
        /\ frame' = [frame EXCEPT ![p] = setBody(f, f.key, f.value, f.ttl, out)]
        /\ IF out = NoFailure
           THEN /\ kv' = storeSet(f.key, setReq(f.key, f.value, f.ttl, out))
                /\ lastSet' = [lastSet EXCEPT ![f.key] = f.value]
           ELSE UNCHANGED <<kv, lastSet>>
        /\ UNCHANGED hashes

getOrSetSet(p, out) ==
    LET f == frame[p]
    IN  /\ f.pc = "set"
        /\ frame' = [frame EXCEPT ![p] =
                        Returns(setBody(f, f.key, f.value, f.ttl, out), f.value)]
        /\ IF out = NoFailure
           THEN /\ kv' = storeSet(f.key, setReq(f.key, f.value, f.ttl, out))
                /\ lastSet' = [lastSet EXCEPT ![f.key] = f.value]
           ELSE UNCHANGED <<kv, lastSet>>
        /\ UNCHANGED hashes

(***************************************************************************)
(* expire and ttl, lines 253-259: no try/catch.                            *)
(***************************************************************************)
\* EXPIRE: 1 if the key exists (a ttl <= 0 removes it), 0 if it does not
storeExpire(key, n) ==
    IF kv[key].text = Nil THEN kv
    ELSE IF n <= 0 THEN [kv EXCEPT ![key] = NoEntry]
    ELSE [kv EXCEPT ![key].ex = n]

\* TTL: seconds left, -1 without expiry, -2 for a missing key
storeTtl(key) ==
    IF kv[key].text = Nil THEN -2 ELSE IF kv[key].ex = 0 THEN -1 ELSE kv[key].ex

\* passThrough with a fail-soft catch: the failure becomes -1
passThroughSoft(f, r, n, out) ==
    IF out = NoFailure THEN ReturnsNumber(Sent(f, r), n) ELSE ReturnsNumber(Sent(f, r), -1)

passThrough(f, r, n, out) ==
    IF out = NoFailure THEN ReturnsNumber(Sent(f, r), n) ELSE Raises(Sent(f, r), out)

expire(p, key, seconds, out) ==
    /\ Idle(p)
    /\ frame' = [frame EXCEPT ![p] =
                    passThrough([IdleFrame EXCEPT !.op = "expire", !.key = key,
                                                  !.ttl = seconds],
                                Req("EXPIRE", key, <<>>, seconds.n, out),
                                IF kv[key].text = Nil THEN 0 ELSE 1, out)]
    /\ IF out = NoFailure
       THEN /\ kv' = storeExpire(key, seconds.n)
            /\ lastSet' = [lastSet EXCEPT ![key] =
                              IF seconds.n <= 0 THEN Undefined ELSE @]
       ELSE UNCHANGED <<kv, lastSet>>
    /\ UNCHANGED hashes

ttl(p, key, out) ==
    /\ Idle(p)
    /\ frame' = [frame EXCEPT ![p] =
                    passThrough([IdleFrame EXCEPT !.op = "ttl", !.key = key],
                                Req("TTL", key, <<>>, 0, out), storeTtl(key), out)]
    /\ UNCHANGED <<kv, hashes, lastSet>>

(***************************************************************************)
(* scan, lines 114-125: no try/catch.  scan runs up to the first request,  *)
(* scanReply is one turn of the loop: the reply of line 118, lines 120-122 *)
(* and either the next request or the return.                              *)
(***************************************************************************)
scanReq(f) == Sent(f, Req("SCAN", f.cursor, <<>>, 0, NoFailure))

scan(p, pattern) ==
    /\ Idle(p)
    /\ frame' = [frame EXCEPT ![p] =
                    scanReq([IdleFrame EXCEPT !.op = "scan", !.pc = "scan",
                                              !.pattern = pattern])]
    /\ UNCHANGED <<kv, hashes, lastSet>>

\* scanTurn with a loop that ends at the first empty page
scanTurnUntilEmpty(f, next, page) ==
    LET g == [f EXCEPT !.cursor = next, !.found = f.found \o page,
                       !.replies = Append(@, [cursor |-> next, keys |-> page])]
    IN  IF page # <<>> /\ g.cursor # "0" THEN scanReq(g) ELSE ReturnsSeq(g, g.found)

\* scanTurn with a cycle detection: a reply whose cursor is the one just
\* requested ends the loop
scanTurnDetectsCycle(f, next, page) ==
    LET g == [f EXCEPT !.cursor = next, !.found = f.found \o page,
                       !.replies = Append(@, [cursor |-> next, keys |-> page])]
    IN  IF g.cursor # "0" /\ g.cursor # f.cursor THEN scanReq(g)
        ELSE ReturnsSeq(g, g.found)

\* lines 120-122 for the reply [next, page]
scanTurn(f, next, page) ==
    LET g == [f EXCEPT !.cursor = next, !.found = f.found \o page,
                       !.replies = Append(@, [cursor |-> next, keys |-> page])]
    IN  IF g.cursor # "0" THEN scanReq(g) ELSE ReturnsSeq(g, g.found)

scanReply(p, next, page, out) ==
    LET f == frame[p]
    IN  /\ f.pc = "scan"
        /\ Len(f.replies) < MaxPages
        /\ frame' = [frame EXCEPT ![p] =
                        IF out = NoFailure THEN scanTurn(f, next, page)
                        ELSE Raises([f EXCEPT !.reqs[Len(f.reqs)].fail = out], out)]
        /\ UNCHANGED <<kv, hashes, lastSet>>

\* the last n elements of s
Last(s, n) == IF Len(s) > n THEN SubSeq(s, Len(s) - n + 1, Len(s)) ELSE s

\* A frame of scan with its history cut to the last MaxPages requests,
\* replies and keys found: what the loop does next depends on cursor alone.
Window(f) ==
    [f EXCEPT !.reqs = Last(@, MaxPages), !.replies = Last(@, MaxPages),
              !.found = Last(@, MaxPages)]

\* scanReply for a loop of any length: one turn of the do/while, the history
\* cut to a window; turns is the parity of the number of turns taken
scanReplyWindowed(p, next, page, out) ==
    LET f == frame[p]
    IN  /\ f.pc = "scan"
        /\ frame' = [frame EXCEPT ![p] =
                        IF out = NoFailure
                        THEN [Window(scanTurn(f, next, page)) EXCEPT
                                 !.turns = 1 - f.turns]
                        ELSE Raises([f EXCEPT !.reqs[Len(f.reqs)].fail = out], out)]
        /\ UNCHANGED <<kv, hashes, lastSet>>

(***************************************************************************)
(* hget, hmget, hgetall, lines 127-197.                                    *)
(***************************************************************************)
hgetLog(e) ==
    LogEntry("An error occurred while trying to hget from redis.",
             {"hash", "field", "exception"}, e.text)

hmgetLog(e) ==
    LogEntry("An error occurred while trying to hget from redis.",
             {"hash", "fields", "exception"}, e.text)

hgetallLog(e) ==
    LogEntry("An error occurred while trying to hgetall from redis.",
             {"hash", "exception"}, e.text)

\* catch (error) { if (error instanceof Error) this.logger.error(..) }
Caught(f, entry, e) == IF e.isError THEN Logged(f, entry) ELSE f

hgetBody(f, hash, data, out) ==
    LET g == Sent(f, Req("HGET", hash, <<>>, 0, out))
    IN  IF out # NoFailure THEN Returns(Caught(g, hgetLog(out), out), Undefined)
        ELSE IF Truthy(data)
             THEN LET r == JSONparse(data)
                  IN  IF r.ok THEN Returns(g, r.v)
                      ELSE Returns(Caught(g, hgetLog(SyntaxError), SyntaxError),
                                   Undefined)
        ELSE Returns(g, Undefined)

hget(p, hash, field, out) ==
    /\ Idle(p)
    /\ frame' = [frame EXCEPT ![p] =
                    hgetBody([IdleFrame EXCEPT !.op = "hget", !.hash = hash,
                                               !.field = field],
                             hash, hashes[hash][field], out)]
    /\ UNCHANGED <<kv, hashes, lastSet>>

\* HMGET: one slot per requested field, Nil (null) for a missing field
storeHmget(hash, fields) == [i \in 1..Len(fields) |-> hashes[hash][fields[i]]]

\* lines 154-157
hmgetSlot(text) == IF text # Nil THEN JSONparse(text).v ELSE Null

\* hmgetBody that drops the null slots before it maps the others
hmgetBodyFiltered(f, hash, results, out) ==
    LET g == Sent(f, Req("HMGET", hash, <<>>, 0, out))
        kept == SelectSeq(results, LAMBDA t : t # Nil)
    IN  IF out # NoFailure THEN ReturnsSeq(Caught(g, hmgetLog(out), out), <<>>)
        ELSE IF Len(results) > 0
             THEN IF \E i \in 1..Len(kept) : ~JSONparse(kept[i]).ok
                  THEN ReturnsSeq(Caught(g, hmgetLog(SyntaxError), SyntaxError), <<>>)
                  ELSE ReturnsSeq(g, [i \in 1..Len(kept) |-> JSONparse(kept[i]).v])
        ELSE ReturnsSeq(g, <<>>)

hmgetBody(f, hash, results, out) ==
    LET g == Sent(f, Req("HMGET", hash, <<>>, 0, out))
    IN  IF out # NoFailure THEN ReturnsSeq(Caught(g, hmgetLog(out), out), <<>>)
        ELSE IF Len(results) > 0
             THEN IF \E i \in 1..Len(results) :
                        results[i] # Nil /\ ~JSONparse(results[i]).ok
                  THEN ReturnsSeq(Caught(g, hmgetLog(SyntaxError), SyntaxError), <<>>)
                  ELSE ReturnsSeq(g, [i \in 1..Len(results) |-> hmgetSlot(results[i])])
        ELSE ReturnsSeq(g, <<>>)

hmget(p, hash, fields, out) ==
    /\ Idle(p)
    /\ frame' = [frame EXCEPT ![p] =
                    hmgetBody([IdleFrame EXCEPT !.op = "hmget", !.hash = hash,
                                                !.fields = fields],
                              hash, storeHmget(hash, fields), out)]
    /\ UNCHANGED <<kv, hashes, lastSet>>

\* HGETALL replies an object (an empty one for a missing hash), never null;
\* data is field -> text, Nil for a field the hash does not hold
hgetallBody(f, hash, data, out) ==
    LET g == Sent(f, Req("HGETALL", hash, <<>>, 0, out))
    IN  IF out # NoFailure THEN Returns(Caught(g, hgetallLog(out), out), Undefined)
        ELSE IF \E fd \in Fields : data[fd] # Nil /\ ~JSONparse(data[fd]).ok
             THEN Returns(Caught(g, hgetallLog(SyntaxError), SyntaxError), Undefined)
        ELSE ReturnsMap(g, [fd \in Fields |-> IF data[fd] = Nil THEN Undefined
                                              ELSE JSONparse(data[fd]).v])

hgetall(p, hash, out) ==
    /\ Idle(p)
    /\ frame' = [frame EXCEPT ![p] =
                    hgetallBody([IdleFrame EXCEPT !.op = "hgetall", !.hash = hash],
                                hash, hashes[hash], out)]
    /\ UNCHANGED <<kv, hashes, lastSet>>

(***************************************************************************)
(* hset, hmset, hdel, lines 199-251: the catch logs and rethrows.          *)
(***************************************************************************)
hsetLog(e) ==
    LogEntry("An error occurred while trying to hset in redis.",
             {"hash", "field", "value", "exception"}, e.text)

hmsetLog(e) ==
    LogEntry("An error occurred while trying to hset in redis.",
             {"hash", "values", "exception"}, e.text)

hdelLog(e) ==
    LogEntry("An error occurred while trying to hdel in redis.",
             {"hash", "fields", "exception"}, e.text)

\* catch (error) { if (error instanceof Error) this.logger.error(..); throw error }
Rethrown(f, entry, e) == Raises(Caught(f, entry, e), e)

\* the client sends an undefined argument as the empty string
clientArg(text) == IF text = NoText THEN <<>> ELSE text

\* hsetSkips with value === undefined for value == null
hsetSkipsUndefined(value, cacheNullable) == ~cacheNullable /\ value.t = "undefined"

hsetSkips(value, cacheNullable) == ~cacheNullable /\ LooseNull(value)

hsetReq(hash, value, out) == Req("HSET", hash, clientArg(JSONstringify(value)), 0, out)

\* HSET: 1 for a new field, 0 for a field that existed
storeHsetCount(hash, field) == IF hashes[hash][field] = Nil THEN 1 ELSE 0

\* hsetBody that returns 1 for every write the store accepts
hsetBodyReturnsOne(f, hash, field, value, out) ==
    LET g == Sent(f, hsetReq(hash, value, out))
    IN  IF out = NoFailure THEN ReturnsNumber(g, 1)
        ELSE Rethrown(g, hsetLog(out), out)

hsetBody(f, hash, field, value, out) ==
    LET g == Sent(f, hsetReq(hash, value, out))
    IN  IF out = NoFailure THEN ReturnsNumber(g, storeHsetCount(hash, field))
        ELSE Rethrown(g, hsetLog(out), out)

hset(p, hash, field, value, cacheNullable, out) ==
    LET f == [IdleFrame EXCEPT !.op = "hset", !.hash = hash, !.field = field,
                               !.value = value, !.cacheNullable = cacheNullable]
    IN  /\ Idle(p)
        /\ IF hsetSkips(value, cacheNullable)
           THEN /\ out = NoFailure
                /\ frame' = [frame EXCEPT ![p] = ReturnsNumber(f, 0)]
                /\ UNCHANGED hashes
           ELSE /\ frame' = [frame EXCEPT ![p] = hsetBody(f, hash, field, value, out)]
                /\ IF out = NoFailure
                   THEN hashes' = [hashes EXCEPT ![hash][field] =
                                      hsetReq(hash, value, out).text]
                   ELSE UNCHANGED hashes
        /\ UNCHANGED <<kv, lastSet>>

\* HMSET with the flat list field1, text1, field2, text2, ..: a later pair wins
RECURSIVE storeHmset(_, _)
storeHmset(h, values) ==
    IF Len(values) < 2 THEN h
    ELSE storeHmset([h EXCEPT ![values[1]] = values[2]], Drop(values, 2))

hmsetBody(f, hash, out) ==
    LET g == Sent(f, Req("HMSET", hash, <<>>, 0, out))
    IN  IF out = NoFailure THEN Returns(g, OK) ELSE Rethrown(g, hmsetLog(out), out)

hmset(p, hash, values, out) ==
    /\ Idle(p)
    /\ frame' = [frame EXCEPT ![p] =
                    hmsetBody([IdleFrame EXCEPT !.op = "hmset", !.hash = hash,
                                                !.values = values], hash, out)]
    /\ IF out = NoFailure
       THEN hashes' = [hashes EXCEPT ![hash] = storeHmset(@, values)]
       ELSE UNCHANGED hashes
    /\ UNCHANGED <<kv, lastSet>>

\* HDEL: the number of fields removed
storeHdelCount(hash, fields) ==
    Cardinality({fd \in Range(fields) : hashes[hash][fd] # Nil})

hdelBody(f, hash, count, out) ==
    LET g == Sent(f, Req("HDEL", hash, <<>>, 0, out))
    IN  IF out = NoFailure THEN ReturnsNumber(g, count)
        ELSE Rethrown(g, hdelLog(out), out)

hdel(p, hash, fields, out) ==
    /\ Idle(p)
    /\ frame' = [frame EXCEPT ![p] =
                    hdelBody([IdleFrame EXCEPT !.op = "hdel", !.hash = hash,
                                               !.fields = fields],
                             hash, storeHdelCount(hash, fields), out)]
    /\ IF out = NoFailure
       THEN hashes' = [hashes EXCEPT ![hash] =
                          [fd \in Fields |-> IF fd \in Range(fields) THEN Nil ELSE @[fd]]]
       ELSE UNCHANGED hashes
    /\ UNCHANGED <<kv, lastSet>>

(***************************************************************************)
(* The caller takes the result; time passes in the store.                  *)
(***************************************************************************)
Return(p) ==
    /\ frame[p].pc = "done"
    /\ frame' = [frame EXCEPT ![p] = IdleFrame]
    /\ UNCHANGED <<kv, hashes, lastSet>>

\* one second passes: a key whose expiry runs out is removed.  A completed
\* call is taken by its caller (Return) before the clock moves on, so what a
\* frame at "done" shows is the store as the call left it.
Tick ==
    /\ \A p \in Callers : frame[p].pc # "done"
    /\ \E k \in Keys : kv[k].ex > 0
    /\ kv' = [k \in Keys |-> IF kv[k].ex = 1 THEN NoEntry
                             ELSE IF kv[k].ex > 1 THEN Entry(kv[k].text, kv[k].ex - 1)
                             ELSE kv[k]]
    /\ lastSet' = [k \in Keys |-> IF kv[k].ex = 1 THEN Undefined ELSE lastSet[k]]
    /\ UNCHANGED <<hashes, frame>>

Init ==
    /\ kv = [k \in Keys |-> NoEntry]
    /\ hashes = [h \in Hashes |-> [fd \in Fields |-> Nil]]
    /\ frame = [p \in Callers |-> IdleFrame]
    /\ lastSet = [k \in Keys |-> Undefined]

(***************************************************************************)
(* Specifications.  They run the same actions and differ in the callers,   *)
(* the operations they offer and the sets their arguments are drawn from;  *)
(* the five of this section have the one caller c1.                        *)
(***************************************************************************)
\* the string-key operations on two keys
NextKeys ==
    \/ \E k \in Keys, o \in Outcomes : get("c1", k, o)
    \/ \E k \in Keys, v \in Values, t \in TtlArgs, c \in BOOLEAN, o \in Outcomes :
          set("c1", k, v, t, c, o)
    \/ \E k \in Keys, o \in Outcomes : delete("c1", k, o)
    \/ \E ks \in ListsOf(Keys), o \in Outcomes : deleteMany("c1", ks, o)
    \/ \E k \in Keys, v \in Values, t \in Ttls, c \in BOOLEAN, o \in Outcomes :
          getOrSet("c1", k, v, t, c, o)
    \/ \E o \in Outcomes : getOrSetSet("c1", o)
    \/ \E k \in Keys, t \in Ttls, o \in Outcomes : expire("c1", k, t, o)
    \/ \E k \in Keys, o \in Outcomes : ttl("c1", k, o)
    \/ Return("c1")
    \/ Tick

SpecKeys == Init /\ [][NextKeys]_vars

\* set and get over every kind of JSON value on k1, beside writes to k2
NextRoundTrip ==
    \/ \E k \in Keys, o \in Outcomes : get("c1", k, o)
    \/ \E v \in {Undefined} \union JsonValues, t \in TtlArgs,
          c \in BOOLEAN, o \in Outcomes :
          set("c1", "k1", v, t, c, o)
    \/ \E v \in Values, t \in TtlArgs, o \in Outcomes :
          set("c1", "k2", v, t, TRUE, o)
    \/ Return("c1")
    \/ Tick

SpecRoundTrip == Init /\ [][NextRoundTrip]_vars

\* the hash operations on one hash
NextHash ==
    \/ \E fd \in Fields, o \in Outcomes : hget("c1", "h1", fd, o)
    \/ \E fs \in ListsOf(Fields), o \in Outcomes : hmget("c1", "h1", fs, o)
    \/ \E o \in Outcomes : hgetall("c1", "h1", o)
    \/ \E fd \in Fields, v \in Values, c \in BOOLEAN, o \in Outcomes :
          hset("c1", "h1", fd, v, c, o)
    \/ \E vs \in FlatLists, o \in Outcomes : hmset("c1", "h1", vs, o)
    \/ \E fs \in ListsOf(Fields), o \in Outcomes : hdel("c1", "h1", fs, o)
    \/ Return("c1")

SpecHash == Init /\ [][NextHash]_vars

\* scan against a store that serves any page sequence
NextScan ==
    \/ scan("c1", "*")
    \/ \E c \in Cursors, pg \in Pages, o \in Outcomes : scanReply("c1", c, pg, o)
    \/ Return("c1")

SpecScan == Init /\ [][NextScan]_vars

\* the whole facade on one key and one hash field
Next ==
    \/ \E o \in Outcomes : get("c1", "k1", o)
    \/ \E v \in Values, t \in TtlArgs, c \in BOOLEAN, o \in Outcomes :
          set("c1", "k1", v, t, c, o)
    \/ \E o \in Outcomes : delete("c1", "k1", o)
    \/ \E ks \in ListsOf({"k1"}), o \in Outcomes : deleteMany("c1", ks, o)
    \/ \E v \in Values, t \in Ttls, c \in BOOLEAN, o \in Outcomes :
          getOrSet("c1", "k1", v, t, c, o)
    \/ \E o \in Outcomes : getOrSetSet("c1", o)
    \/ scan("c1", "*")
    \/ \E c \in Cursors, pg \in {<<>>, <<"k1">>}, o \in Outcomes :
          scanReply("c1", c, pg, o)
    \/ \E o \in Outcomes : hget("c1", "h1", <<"x">>, o)
    \/ \E fs \in ListsOf({<<"x">>}), o \in Outcomes : hmget("c1", "h1", fs, o)
    \/ \E o \in Outcomes : hgetall("c1", "h1", o)
    \/ \E v \in Values, c \in BOOLEAN, o \in Outcomes :
          hset("c1", "h1", <<"x">>, v, c, o)
    \/ \E vs \in {<<<<"x">>, <<"1">>>>, <<<<"x">>, <<"x">>>>}, o \in Outcomes :
          hmset("c1", "h1", vs, o)
    \/ \E fs \in ListsOf({<<"x">>}), o \in Outcomes : hdel("c1", "h1", fs, o)
    \/ \E t \in Ttls, o \in Outcomes : expire("c1", "k1", t, o)
    \/ \E o \in Outcomes : ttl("c1", "k1", o)
    \/ Return("c1")
    \/ Tick

Spec == Init /\ [][Next]_vars
(***************************************************************************)
(* What a caller observes of a call.                                       *)
(***************************************************************************)
Done(f) == f.pc = "done"

\* the failures the store client raised during the call
StoreFailed(f) == \E i \in DOMAIN f.reqs : f.reqs[i].fail # NoFailure

ReturnedValue(f, v) == f.outcome = "return" /\ f.kind = "value" /\ f.retv = v
ReturnedNumber(f, n) == f.outcome = "return" /\ f.kind = "number" /\ f.retn = n
ReturnedSeq(f, q) == f.outcome = "return" /\ f.kind = "sequence" /\ f.retseq = q

\* caller p goes from idle to the end of a call of op in this step
Completes(p, op) ==
    frame[p].pc = "idle" /\ frame'[p].pc = "done" /\ frame'[p].op = op

(***************************************************************************)
(* C1.  Fail-soft isolation: when the store client raises during get, set, *)
(* delete, deleteMany, hget, hmget or hgetall, whatever it raises, the     *)
(* call returns its sentinel (undefined for get, set, hget and hgetall, 0  *)
(* for delete and deleteMany, the empty array for hmget) and raises        *)
(* nothing.                                                                *)
(***************************************************************************)
C1_FailSoft ==
    \A p \in Callers :
        LET f == frame[p]
        IN  (Done(f) /\ StoreFailed(f)) =>
                /\ f.op \in {"get", "set", "hget", "hgetall"} => ReturnedValue(f, Undefined)
                /\ f.op \in {"delete", "deleteMany"} => ReturnedNumber(f, 0)
                /\ f.op = "hmget" => ReturnedSeq(f, <<>>)

C1_Witness ==
    LET f == frame["c1"]
    IN  /\ Done(f)
        /\ f.op = "deleteMany"
        /\ f.reqs[1].fail = ThrownString
        /\ ReturnedNumber(f, 0)
        /\ kv["k1"].text # Nil

(***************************************************************************)
(* C2.  Fail-hard on hash mutation: when the store client raises during    *)
(* hset, hmset or hdel, the call raises that same failure, and a log entry *)
(* was written before.                                                     *)
(***************************************************************************)
C2_FailHardAfterLogging ==
    \A p \in Callers :
        LET f == frame[p]
        IN  (Done(f) /\ f.op \in {"hset", "hmset", "hdel"} /\ StoreFailed(f)) =>
                /\ f.outcome = "raise"
                /\ f.raised = f.reqs[1].fail
                /\ f.logs # <<>>

(***************************************************************************)
(* C3.  Round trip: after a successful set(k, v, ttl) of a JSON value v    *)
(* (null, false, 0, "", [] and {} included), with ttl null or positive, a  *)
(* get(k) that the store answers, with no expiry, removal or other write   *)
(* of k in between, returns a value equal to v, never undefined.           *)
(***************************************************************************)
C3_RoundTrip ==
    \A p \in Callers :
        LET f == frame[p]
        IN  (Done(f) /\ f.op = "get" /\ ~StoreFailed(f) /\ lastSet[f.key] # Undefined) =>
                /\ ReturnedValue(f, lastSet[f.key])
                /\ f.logs = <<>>

C3_Witness ==
    LET f == frame["c1"]
    IN  /\ Done(f)
        /\ f.op = "get"
        /\ lastSet[f.key] = Str(<<>>)
        /\ kv[f.key].ex > 0
        /\ ReturnedValue(f, Str(<<>>))

(***************************************************************************)
(* C4.  TTL no-op: set(k, v, ttl) with a number ttl <= 0 returns           *)
(* undefined, sends nothing to the store and leaves every key as it was:   *)
(* text and expiry.                                                        *)
(***************************************************************************)
C4_TtlNoOp ==
    [][\A p \in Callers :
          (/\ Completes(p, "set")
           /\ frame'[p].ttl.isNumber
           /\ frame'[p].ttl.n <= 0) =>
              /\ ReturnedValue(frame'[p], Undefined)
              /\ frame'[p].reqs = <<>>
              /\ kv' = kv
              /\ hashes' = hashes]_vars

C4_Witness ==
    LET f == frame["c1"]
    IN  /\ Done(f)
        /\ f.op = "set"
        /\ f.ttl = Ttl(0)
        /\ f.value = Num(0)
        /\ kv[f.key].text = JSONstringify(Null)
        /\ kv[f.key].ex = 2

(***************************************************************************)
(* C5.  Nullability: set(k, null, null, false) sends nothing, returns      *)
(* undefined and leaves the store as it was; set(k, null, null, true) that *)
(* the store accepts leaves k holding a text for which get(k) returns null *)
(* and not undefined.                                                      *)
(***************************************************************************)
C5_Nullability ==
    [][\A p \in Callers :
          (/\ Completes(p, "set")
           /\ frame'[p].value = Null
           /\ frame'[p].ttl = NullTtl) =>
              IF ~frame'[p].cacheNullable
              THEN /\ ReturnedValue(frame'[p], Undefined)
                   /\ frame'[p].reqs = <<>>
                   /\ kv' = kv
              ELSE /\ Len(frame'[p].reqs) = 1
                   /\ ~StoreFailed(frame'[p]) =>
                         /\ ReturnedValue(frame'[p], OK)
                         /\ kv'[frame'[p].key].text # Nil
                         /\ kv'[frame'[p].key].ex = 0
                         /\ ReturnedValue(
                                getBody(IdleFrame, frame'[p].key,
                                        kv'[frame'[p].key].text, NoFailure),
                                Null)]_vars

\* null is stored under k (a set with cacheNullable went through) and the
\* set without cacheNullable that followed left it there
C5_Witness ==
    LET f == frame["c1"]
    IN  /\ Done(f)
        /\ f.op = "set"
        /\ f.value = Null
        /\ f.ttl = NullTtl
        /\ ~f.cacheNullable
        /\ lastSet[f.key] = Null
        /\ kv[f.key].text = JSONstringify(Null)

(***************************************************************************)
(* C6.  getOrSet default delivery: when the get inside getOrSet(k, v, ..)  *)
(* gives undefined (a miss or a failed read), the call returns v and       *)
(* raises nothing, whether the write went through, failed in the store or  *)
(* was skipped by set's early returns.                                     *)
(***************************************************************************)
C6_DefaultDelivery ==
    \A p \in Callers :
        LET f == frame[p]
        IN  (Done(f) /\ f.op = "getOrSet" /\ f.cachedData = Undefined) =>
                ReturnedValue(f, f.value)

\* the read failed, the write failed too, and the caller still got its 0
C6_Witness ==
    LET f == frame["c1"]
    IN  /\ Done(f)
        /\ f.op = "getOrSet"
        /\ f.value = Num(0)
        /\ Len(f.reqs) = 2
        /\ f.reqs[1].fail = ConnectionError
        /\ f.reqs[2].fail = ThrownString
        /\ ReturnedValue(f, Num(0))

(***************************************************************************)
(* C7.  getOrSet hit path: when k holds a value (null included) and the    *)
(* store answers the read, getOrSet(k, v, ttl) returns the value held, not *)
(* v, sends the store nothing but the GET, and leaves every key as it was: *)
(* text and expiry.                                                        *)
(***************************************************************************)
C7_HitPath ==
    [][\A p \in Callers :
          (/\ frame[p].pc = "idle"
           /\ frame'[p].op = "getOrSet"
           /\ lastSet[frame'[p].key] # Undefined
           /\ frame'[p].reqs[1].fail = NoFailure) =>
              /\ frame'[p].pc = "done"
              /\ ReturnedValue(frame'[p], lastSet[frame'[p].key])
              /\ Len(frame'[p].reqs) = 1
              /\ frame'[p].reqs[1].cmd = "GET"
              /\ kv' = kv]_vars

C7_Witness ==
    LET f == frame["c1"]
    IN  /\ Done(f)
        /\ f.op = "getOrSet"
        /\ f.value = Num(0)
        /\ f.ttl = Ttl(1)
        /\ lastSet[f.key] = Null
        /\ kv[f.key].ex = 2
        /\ ReturnedValue(f, Null)

(***************************************************************************)
(* C8.  Scan completeness: scan sends one SCAN per page, the first with    *)
(* cursor "0" and each later one with the cursor of the page before, only  *)
(* after that page has come; it returns as soon as a page carries cursor   *)
(* "0", and what it returns is the keys of all the pages in the order      *)
(* served, empty pages and repeated keys as they came.                     *)
(***************************************************************************)
RECURSIVE PageKeys(_)
PageKeys(replies) ==
    IF replies = <<>> THEN <<>> ELSE Head(replies).keys \o PageKeys(Tail(replies))

C8_ScanCompleteness ==
    \A p \in Callers :
        LET f == frame[p]
            n == Len(f.replies)
        IN  f.op = "scan" =>
                /\ f.reqs[1].arg = "0"
                /\ \A i \in 2..Len(f.reqs) :
                      f.reqs[i].cmd = "SCAN" /\ f.reqs[i].arg = f.replies[i - 1].cursor
                /\ \A i \in 1..(n - 1) : f.replies[i].cursor # "0"
                /\ f.pc = "scan" => Len(f.reqs) = n + 1
                /\ (n > 0 /\ f.replies[n].cursor = "0") =>
                      /\ Done(f)
                      /\ Len(f.reqs) = n
                      /\ ReturnedSeq(f, PageKeys(f.replies))
                /\ (Done(f) /\ f.outcome = "return") =>
                      (n > 0 /\ f.replies[n].cursor = "0")

\* the pages "0" -> "17" -> "42" -> "0", the second one empty
C8_Witness ==
    LET f == frame["c1"]
    IN  /\ Done(f)
        /\ f.op = "scan"
        /\ Len(f.replies) = 3
        /\ f.replies[1] = [cursor |-> "17", keys |-> <<"k2", "k1">>]
        /\ f.replies[2] = [cursor |-> "42", keys |-> <<>>]
        /\ f.replies[3] = [cursor |-> "0", keys |-> <<"k2", "k2">>]
        /\ ReturnedSeq(f, <<"k2", "k1", "k2", "k2">>)

(***************************************************************************)
(* C9.  No local error handling: a failure of the store client during      *)
(* scan (on any page), expire or ttl is raised to the caller as it is;     *)
(* nothing is returned, not even the keys found so far, and scan sends no  *)
(* request after the one that failed.                                      *)
(***************************************************************************)
C9_Propagation ==
    \A p \in Callers :
        LET f == frame[p]
        IN  (f.op \in {"scan", "expire", "ttl"} /\ StoreFailed(f)) =>
                /\ Done(f)
                /\ f.outcome = "raise"
                /\ f.kind = "none"
                /\ f.retseq = <<>>
                /\ f.reqs[Len(f.reqs)].fail = f.raised
                /\ \A i \in 1..(Len(f.reqs) - 1) : f.reqs[i].fail = NoFailure
                /\ f.op = "scan" => Len(f.reqs) = Len(f.replies) + 1

\* scan fails on its second page, with keys of the first in hand
C9_Witness ==
    LET f == frame["c1"]
    IN  /\ Done(f)
        /\ f.op = "scan"
        /\ Len(f.replies) = 1
        /\ f.found = <<"k1">>
        /\ Len(f.reqs) = 2
        /\ f.reqs[2].fail = ThrownString
        /\ f.outcome = "raise"
        /\ f.raised = ThrownString

(***************************************************************************)
(* C10.  hmget slot semantics.  A successful hmget is one the store        *)
(* answers and whose stored texts all parse.                               *)
(***************************************************************************)
hmgetSucceeds(f) ==
    /\ ~StoreFailed(f)
    /\ \A i \in 1..Len(f.fields) :
          hashes[f.hash][f.fields[i]] # Nil => JSONparse(hashes[f.hash][f.fields[i]]).ok

\* C10 as claimed: a successful hmget(hash, fields) returns one slot per
\* field, in order; slot i is null exactly when fields[i] is absent in the
\* store and is otherwise the deserialized stored value; the empty array
\* is returned only on failure.
C10_SlotNullIffAbsent ==
    \A p \in Callers :
        LET f == frame[p]
        IN  (Done(f) /\ f.op = "hmget" /\ f.fields # <<>>) =>
                /\ hmgetSucceeds(f) =>
                      /\ f.outcome = "return"
                      /\ Len(f.retseq) = Len(f.fields)
                      /\ \A i \in 1..Len(f.fields) :
                            LET text == hashes[f.hash][f.fields[i]]
                            IN  /\ f.retseq[i] = Null <=> text = Nil
                                /\ text # Nil => f.retseq[i] = JSONparse(text).v
                /\ ReturnedSeq(f, <<>>) => ~hmgetSucceeds(f)

\* C10 as amended: slot i is null when fields[i] is absent in the store or
\* its stored text deserializes to null, and is otherwise the deserialized
\* stored value; the rest as claimed.
C10_SlotSemantics ==
    \A p \in Callers :
        LET f == frame[p]
        IN  (Done(f) /\ f.op = "hmget" /\ f.fields # <<>>) =>
                /\ hmgetSucceeds(f) =>
                      /\ f.outcome = "return"
                      /\ Len(f.retseq) = Len(f.fields)
                      /\ \A i \in 1..Len(f.fields) :
                            LET text == hashes[f.hash][f.fields[i]]
                            IN  /\ f.retseq[i] = Null <=>
                                      (text = Nil \/ JSONparse(text).v = Null)
                                /\ text # Nil => f.retseq[i] = JSONparse(text).v
                /\ ReturnedSeq(f, <<>>) => ~hmgetSucceeds(f)

\* [x, y] with x holding 1 and y absent gives [1, null]
C10_Witness ==
    LET f == frame["c1"]
    IN  /\ Done(f)
        /\ f.op = "hmget"
        /\ f.fields = << <<"x">>, <<"y">> >>
        /\ hashes["h1"][<<"x">>] = JSONstringify(Num(1))
        /\ hashes["h1"][<<"y">>] = Nil
        /\ ReturnedSeq(f, <<Num(1), Null>>)

(***************************************************************************)
(* Two callers of getOrSet on one key.  Each await of getOrSet is a point  *)
(* where the other caller may run: between the reply of the GET (getOrSet) *)
(* and the store applying the SET (getOrSetSet).                           *)
(***************************************************************************)
NextRace ==
    \/ \E p \in Callers, v \in Values, t \in Ttls, o \in Outcomes :
          getOrSet(p, "k1", v, t, TRUE, o)
    \/ \E p \in Callers, o \in Outcomes : getOrSetSet(p, o)
    \/ \E p \in Callers : Return(p)
    \/ Tick

SpecRace == Init /\ [][NextRace]_vars

(***************************************************************************)
(* C11.  getOrSet is not atomic.  Two callers of getOrSet on the same      *)
(* absent key can both read it absent and both write (C11_Witness).  Then  *)
(* each write the store applies replaces what the key held, so the value   *)
(* left is that of the write applied last, and each caller returns the     *)
(* value it supplied itself, which may differ from the other's.            *)
(***************************************************************************)
\* the read of caller f found nothing and its write was applied
ReadAbsentAndWrote(f) ==
    /\ Done(f)
    /\ f.op = "getOrSet"
    /\ Len(f.reqs) = 2
    /\ f.reqs[1].fail = NoFailure
    /\ f.cachedData = Undefined
    /\ f.reqs[2].cmd = "SET"
    /\ f.reqs[2].fail = NoFailure

C11_LastWriteWins ==
    [][/\ \A p \in Callers :
             (frame[p].pc = "set" /\ frame'[p].pc = "done") =>
                 /\ ReturnedValue(frame'[p], frame[p].value)
                 /\ ~StoreFailed(frame'[p]) =>
                       /\ kv'[frame[p].key].text = JSONstringify(frame[p].value)
                       /\ lastSet'[frame[p].key] = frame[p].value
       /\ (\A p \in Callers : ReadAbsentAndWrote(frame'[p])) =>
             /\ kv'["k1"].text = JSONstringify(lastSet'["k1"])
             /\ \E p \in Callers : frame'[p].value = lastSet'["k1"]
             /\ \A p \in Callers : ReturnedValue(frame'[p], frame'[p].value)]_vars

\* both read k1 absent, both wrote; the store holds c2's 0, c1 returned null
C11_Witness ==
    /\ ReadAbsentAndWrote(frame["c1"])
    /\ ReadAbsentAndWrote(frame["c2"])
    /\ frame["c1"].value = Null
    /\ frame["c2"].value = Num(0)
    /\ ReturnedValue(frame["c1"], Null)
    /\ ReturnedValue(frame["c2"], Num(0))
    /\ kv["k1"].text = JSONstringify(Num(0))

(***************************************************************************)
(* C12.  Policy no-ops are silent: set with an undefined value (whatever   *)
(* the ttl and the flag), with null and cacheNullable false, or with a     *)
(* number ttl <= 0, and hset with null and cacheNullable false, send no    *)
(* request to the store client, write no log entry and return the          *)
(* sentinel: undefined for set, 0 for hset.                                *)
(***************************************************************************)
C12_SilentNoOps ==
    \A p \in Callers :
        LET f == frame[p]
        IN  /\ (/\ Done(f)
                /\ f.op = "set"
                /\ \/ f.value = Undefined
                   \/ (f.value = Null /\ ~f.cacheNullable)
                   \/ (f.ttl.isNumber /\ f.ttl.n <= 0)) =>
                   /\ f.reqs = <<>>
                   /\ f.logs = <<>>
                   /\ ReturnedValue(f, Undefined)
            /\ (Done(f) /\ f.op = "hset" /\ f.value = Null /\ ~f.cacheNullable) =>
                   /\ f.reqs = <<>>
                   /\ f.logs = <<>>
                   /\ ReturnedNumber(f, 0)

\* hset of null without cacheNullable on a field that holds 0: nothing sent
C12_Witness ==
    LET f == frame["c1"]
    IN  /\ Done(f)
        /\ f.op = "hset"
        /\ f.value = Null
        /\ ~f.cacheNullable
        /\ f.reqs = <<>>
        /\ ReturnedNumber(f, 0)
        /\ hashes["h1"][<<"x">>] = JSONstringify(Num(0))

(***************************************************************************)
(* C13.  Diagnostics: every failure of the store client caught by get,     *)
(* set, delete, deleteMany, hget, hmget, hgetall, hset, hmset or hdel,     *)
(* whatever kind of value was raised, leaves a log entry by the time the   *)
(* call returns or re-raises; the entry carries a message, the key or hash *)
(* identifiers of the call and the failure's string representation.        *)
(***************************************************************************)
\* the payload members that identify the key or the hash of a call of op
Identifiers(op) ==
    CASE op \in {"get", "set", "delete"} -> {{"cacheKey"}}
      [] op = "deleteMany" -> {{"cacheKey"}, {"cacheKeys"}, {"keys"}}
      [] op \in {"hget", "hmget", "hgetall", "hset", "hmset", "hdel"} -> {{"hash"}}
      [] OTHER -> {{}}

C13_Diagnostics ==
    \A p \in Callers :
        LET f == frame[p]
        IN  (/\ Done(f)
             /\ f.op \in {"get", "set", "delete", "deleteMany", "hget", "hmget",
                          "hgetall", "hset", "hmset", "hdel"}
             /\ StoreFailed(f)) =>
                /\ Len(f.logs) = 1
                /\ f.logs[1].message # ""
                /\ \E ids \in Identifiers(f.op) : ids \subseteq f.logs[1].payload
                /\ f.logs[1].error = f.reqs[1].fail.text

(***************************************************************************)
(* The read paths over a store that other clients have written: the        *)
(* service is constructed on a client of a store that already holds texts, *)
(* valid serializations or not.                                            *)
(***************************************************************************)
\* nothing, the empty text, a non-empty text that is no JSON, cut-off JSON,
\* and two valid serializations
StoredTexts ==
    {Nil, <<>>, <<"x">>, <<"{">>, JSONstringify(Num(1)), JSONstringify(Null)}

InitAnyStore ==
    /\ kv \in [Keys -> {Entry(t, 0) : t \in StoredTexts}]
    /\ kv["k2"] = NoEntry
    /\ hashes \in [Hashes -> [Fields -> StoredTexts]]
    /\ hashes["h2"] = [fd \in Fields |-> Nil]
    /\ frame = [p \in Callers |-> IdleFrame]
    /\ lastSet = [k \in Keys |-> Undefined]

NextReads ==
    \/ \E k \in Keys, o \in Outcomes : get("c1", k, o)
    \/ \E fd \in Fields, o \in Outcomes : hget("c1", "h1", fd, o)
    \/ \E fs \in ListsOf(Fields), o \in Outcomes : hmget("c1", "h1", fs, o)
    \/ \E o \in Outcomes : hgetall("c1", "h1", o)
    \/ Return("c1")

SpecReads == InitAnyStore /\ [][NextReads]_vars

(***************************************************************************)
(* C14.  Deserialization failure on read paths: when the text stored under *)
(* the key or hash field read is not a valid serialization (the empty text *)
(* included) and the store answers, get, hget and hgetall write a log      *)
(* entry for the failure and return undefined; hmget writes a log entry    *)
(* and returns the empty array for the whole call, even when other         *)
(* requested fields hold valid text; none of them raises.                  *)
(***************************************************************************)
Invalid(text) == text # Nil /\ ~JSONparse(text).ok

\* the call of f met a text that is no serialization
ReadInvalid(f) ==
    CASE f.op = "get" -> Invalid(kv[f.key].text)
      [] f.op = "hget" -> Invalid(hashes[f.hash][f.field])
      [] f.op = "hmget" -> \E i \in 1..Len(f.fields) : Invalid(hashes[f.hash][f.fields[i]])
      [] f.op = "hgetall" -> \E fd \in Fields : Invalid(hashes[f.hash][fd])
      [] OTHER -> FALSE

C14_DeserializationFailure ==
    \A p \in Callers :
        LET f == frame[p]
        IN  (Done(f) /\ ~StoreFailed(f) /\ ReadInvalid(f)) =>
                /\ f.outcome = "return"
                /\ Len(f.logs) = 1
                /\ f.logs[1].error = SyntaxError.text
                /\ f.op \in {"get", "hget", "hgetall"} => ReturnedValue(f, Undefined)
                /\ f.op = "hmget" => ReturnedSeq(f, <<>>)

(***************************************************************************)
(* hset and hget over every kind of JSON value on one hash.                *)
(***************************************************************************)
NextHashRoundTrip ==
    \/ \E fd \in Fields, v \in {Undefined} \union JsonValues,
          c \in BOOLEAN, o \in Outcomes :
          hset("c1", "h1", fd, v, c, o)
    \/ \E fd \in Fields, o \in Outcomes : hget("c1", "h1", fd, o)
    \/ \E fs \in ListsOf(Fields), o \in Outcomes : hdel("c1", "h1", fs, o)
    \/ Return("c1")

SpecHashRoundTrip == Init /\ [][NextHashRoundTrip]_vars

(***************************************************************************)
(* C15.  hset result and effect: an hset(hash, field, v) that is no policy *)
(* no-op and that the store accepts sends one request, writes that one     *)
(* field, returns 1 if the field did not exist before and 0 if it did,     *)
(* leaves every other field, every other hash and every key as they were,  *)
(* and an hget(hash, field) that follows returns a value equal to v.       *)
(***************************************************************************)
C15_HsetResultAndEffect ==
    [][\A p \in Callers :
          (/\ Completes(p, "hset")
           /\ ~(~frame'[p].cacheNullable /\ frame'[p].value \in {Null, Undefined})
           /\ ~StoreFailed(frame'[p])) =>
              LET f == frame'[p]
              IN  /\ Len(f.reqs) = 1
                  /\ f.reqs[1].cmd = "HSET"
                  /\ ReturnedNumber(f, IF hashes[f.hash][f.field] = Nil THEN 1 ELSE 0)
                  /\ hashes'[f.hash][f.field] # Nil
                  /\ \A h \in Hashes, fd \in Fields :
                        (h # f.hash \/ fd # f.field) => hashes'[h][fd] = hashes[h][fd]
                  /\ kv' = kv
                  /\ ReturnedValue(
                         hgetBody(IdleFrame, f.hash, hashes'[f.hash][f.field], NoFailure),
                         f.value)]_vars

\* x held a text and is overwritten with a nested object: 0 is returned,
\* y keeps its text
C15_Witness ==
    LET f == frame["c1"]
    IN  /\ Done(f)
        /\ f.op = "hset"
        /\ f.field = <<"x">>
        /\ f.value = Obj(<< <<"a">> >>, << Arr(<< Num(1), Str(<<"\"">>) >>) >>)
        /\ ReturnedNumber(f, 0)
        /\ hashes["h1"][<<"x">>] = JSONstringify(f.value)
        /\ hashes["h1"][<<"y">>] = JSONstringify(False)

(***************************************************************************)
(* transformArrayToRedisHash (src/unnamed/part_000): the flat list for     *)
(* hmset.  The strings it pushes are kept as JavaScript strings, Str(text).*)
(***************************************************************************)
\* element[key]: undefined for a member the record does not have
Member(element, key) ==
    IF \E i \in 1..Len(element.ks) : element.ks[i] = key
    THEN element.xs[CHOOSE i \in 1..Len(element.ks) : element.ks[i] = key]
    ELSE Undefined

\* hashData with the key serialized as well: data.push(JSON.stringify(element[key]))
RECURSIVE hashDataKeySerialized(_, _)
hashDataKeySerialized(values, key) ==
    IF values = <<>> THEN <<>>
    ELSE <<Str(clientArg(JSONstringify(Member(Head(values), key)))),
           Str(JSONstringify(Head(values)))>>
         \o hashDataKeySerialized(Tail(values), key)

\* the loop of lines 6-10: two pushes per element
RECURSIVE hashData(_, _)
hashData(values, key) ==
    IF values = <<>> THEN <<>>
    ELSE <<Member(Head(values), key), Str(JSONstringify(Head(values)))>>
         \o hashData(Tail(values), key)

transformArrayToRedisHash(p, values, key) ==
    /\ Idle(p)
    /\ frame' = [frame EXCEPT ![p] =
                    Returns([IdleFrame EXCEPT !.op = "transformArrayToRedisHash",
                                              !.value = Arr(values), !.field = key],
                            Arr(hashData(values, key)))]
    /\ UNCHANGED <<kv, hashes, lastSet>>

\* the name of the key field, and records with it first, last, alone or
\* missing; its value is a string or a number
Id == <<"i", "d">>

Records ==
    {Obj(<<Id, <<"v">>>>, <<i, v>>) :
        i \in {Str(<<"x">>), Str(<<"y">>), Num(7)}, v \in {Num(1), Num(2), Null}}
    \union {Obj(<<<<"v">>, Id>>, <<Num(1), i>>) : i \in {Str(<<"x">>), Str(<<"y">>)}}
    \union {Obj(<<Id>>, <<Str(<<"x">>)>>), Obj(<<<<"v">>>>, <<Num(1)>>),
            Obj(<<Id, <<"v">>>>, <<Null, Num(1)>>)}

NextEncode ==
    \/ \E values \in {<<>>} \union ListsOf(Records) :
          transformArrayToRedisHash("c1", values, Id)
    \/ Return("c1")

SpecEncode == Init /\ [][NextEncode]_vars

(***************************************************************************)
(* C16.  Bulk hash encoding: for n records that each have a non-null value *)
(* at the key field, transformArrayToRedisHash returns a flat array of     *)
(* length 2n in the order of the records: for record i, that record's key  *)
(* field value and then the serialization of the whole record, key field   *)
(* included; the records are as they were.                                 *)
(***************************************************************************)
C16_BulkEncoding ==
    \A p \in Callers :
        LET f == frame[p]
            n == Len(f.value.xs)
        IN  (/\ Done(f)
             /\ f.op = "transformArrayToRedisHash"
             /\ \A i \in 1..n : Member(f.value.xs[i], f.field) \notin {Null, Undefined}) =>
                /\ f.outcome = "return"
                /\ f.retv.t = "array"
                /\ Len(f.retv.xs) = 2 * n
                /\ \A i \in 1..n :
                      /\ f.retv.xs[2 * i - 1] = Member(f.value.xs[i], f.field)
                      /\ f.retv.xs[2 * i] = Str(JSONstringify(f.value.xs[i]))
                      /\ JSONparse(f.retv.xs[2 * i].s).ok
                      /\ Member(JSONparse(f.retv.xs[2 * i].s).v, f.field)
                            = f.retv.xs[2 * i - 1]
                      /\ f.value.xs[i] \in Records

\* [{id: "x", v: 1}, {id: "y", v: 2}] gives ["x", '{"id":"x","v":1}', "y", ..]
C16_Witness ==
    LET f == frame["c1"]
    IN  /\ Done(f)
        /\ f.op = "transformArrayToRedisHash"
        /\ f.value = Arr(<<Obj(<<Id, <<"v">>>>, <<Str(<<"x">>), Num(1)>>),
                           Obj(<<Id, <<"v">>>>, <<Str(<<"y">>), Num(2)>>)>>)
        /\ Len(f.retv.xs) = 4
        /\ f.retv.xs[1] = Str(<<"x">>)
        /\ f.retv.xs[2] = Str(<<"{", "\"", "i", "d", "\"", ":", "\"", "x", "\"", ",",
                                "\"", "v", "\"", ":", "1", "}">>)
        /\ f.retv.xs[3] = Str(<<"y">>)

(***************************************************************************)
(* C17.  Expiry of a write: a set(k, v, ttl) that passes the policy checks *)
(* sends exactly one SET of the serialization of v; the SET carries an     *)
(* expiry of ttl seconds exactly when ttl is a positive number and none    *)
(* when ttl is null; when the store accepts it the call returns 'OK', not  *)
(* undefined, and the key holds that text with that expiry.                *)
(***************************************************************************)
C17_ExpiryOfAWrite ==
    \A p \in Callers :
        LET f == frame[p]
        IN  (/\ Done(f)
             /\ f.op = "set"
             /\ f.value # Undefined
             /\ ~(f.value = Null /\ ~f.cacheNullable)
             /\ ~(f.ttl.isNumber /\ f.ttl.n <= 0)) =>
                /\ Len(f.reqs) = 1
                /\ f.reqs[1].cmd = "SET"
                /\ f.reqs[1].arg = f.key
                /\ f.reqs[1].text = JSONstringify(f.value)
                /\ f.reqs[1].ex > 0 <=> (f.ttl.isNumber /\ f.ttl.n > 0)
                /\ f.reqs[1].ex > 0 => f.reqs[1].ex = f.ttl.n
                /\ f.ttl = NullTtl => f.reqs[1].ex = 0
                /\ f.reqs[1].fail = NoFailure =>
                      /\ ReturnedValue(f, OK)
                      /\ kv[f.key] = Entry(JSONstringify(f.value), f.reqs[1].ex)

\* null written with a ttl of 2 seconds over a key that had no expiry
C17_Witness ==
    LET f == frame["c1"]
    IN  /\ Done(f)
        /\ f.op = "set"
        /\ f.value = Null
        /\ f.ttl = Ttl(2)
        /\ Len(f.reqs) = 1
        /\ f.reqs[1].ex = 2
        /\ ReturnedValue(f, OK)
        /\ kv[f.key].ex = 2
        /\ kv["k2"].text = JSONstringify(Num(0))

(***************************************************************************)
(* C18.  Stored-text invariant: in a store written only through set, hset, *)
(* hmset and getOrSet, with any arguments their signatures accept, every   *)
(* text under a key or a hash field is a valid serialization, and no get,  *)
(* hget, hmget or hgetall that the store answers meets a deserialization   *)
(* failure.                                                                *)
(***************************************************************************)
C18_StoredTextValid ==
    /\ \A k \in Keys : ~Invalid(kv[k].text)
    /\ \A h \in Hashes, fd \in Fields : ~Invalid(hashes[h][fd])
    /\ \A p \in Callers :
          LET f == frame[p]
          IN  (/\ Done(f)
               /\ f.op \in {"get", "hget", "hmget", "hgetall"}
               /\ ~StoreFailed(f)) => f.logs = <<>>

(***************************************************************************)
(* scan against a store that answers every request, with any cursor and    *)
(* for any number of pages.  The store answers the request that is         *)
(* outstanding, and the awaiting scan resumes: weak fairness of the reply. *)
(***************************************************************************)
ScanAnswered ==
    \E c \in Cursors, pg \in {<<>>, <<"k1">>}, o \in Outcomes :
        scanReplyWindowed("c1", c, pg, o)

NextScanLoop ==
    \/ scan("c1", "*")
    \/ ScanAnswered
    \/ Return("c1")

SpecScanLoop == Init /\ [][NextScanLoop]_vars /\ WF_vars(ScanAnswered)

(***************************************************************************)
(* C19.  Unbounded scan loop: scan returns only after a reply that carries *)
(* the cursor "0" (and raises only when the store client raised); after    *)
(* every other reply it has sent the next request, however many turns it   *)
(* has taken and whatever cursors it has seen before, and it takes turn    *)
(* after turn for as long as no reply carries "0": with a store that never *)
(* returns "0" it sends requests forever and neither returns nor raises.   *)
(***************************************************************************)
C19_UnboundedScan ==
    LET f == frame["c1"]
        LeavesOnlyOnZero ==
            /\ (f.op = "scan" /\ Done(f) /\ f.outcome = "return") =>
                  (f.replies # <<>> /\ f.replies[Len(f.replies)].cursor = "0")
            /\ (f.op = "scan" /\ Done(f) /\ f.outcome = "raise") => StoreFailed(f)
            /\ (f.op = "scan" /\ f.replies # <<>> /\ ~StoreFailed(f)
                /\ f.replies[Len(f.replies)].cursor # "0") =>
                  /\ f.pc = "scan"
                  /\ f.reqs[Len(f.reqs)].cmd = "SCAN"
                  /\ f.reqs[Len(f.reqs)].arg = f.replies[Len(f.replies)].cursor
    IN  /\ []LeavesOnlyOnZero
        /\ (f.pc = "scan" /\ f.turns = 0) ~> (f.pc # "scan" \/ f.turns = 1)
        /\ (f.pc = "scan" /\ f.turns = 1) ~> (f.pc # "scan" \/ f.turns = 0)

\* more than MaxPages turns taken (the first request, with cursor "0", has
\* left the window), the store cycling between "17" and "42", and scan is
\* still waiting for a reply
C19_Witness ==
    LET f == frame["c1"]
    IN  /\ f.op = "scan"
        /\ f.pc = "scan"
        /\ Len(f.reqs) = MaxPages
        /\ \A i \in 1..Len(f.reqs) : f.reqs[i].arg \in {"17", "42"}
        /\ \A i \in 1..(Len(f.reqs) - 1) : f.reqs[i].arg # f.reqs[i + 1].arg
        /\ f.outcome = "pending"

(***************************************************************************)
(* C20.  getOrSet and an entry that exists, one caller.  The call starts   *)
(* with the step of getOrSet (the GET) and writes, if it does, with the    *)
(* step of getOrSetSet (the SET); in between only the clock may move.      *)
(***************************************************************************)
\* caller p starts getOrSet in this step
StartsGetOrSet(p) == frame[p].pc = "idle" /\ frame'[p].op = "getOrSet"

\* the store applies the SET of p's getOrSet in this step
AppliesSet(p) ==
    /\ frame[p].pc = "set"
    /\ frame'[p].pc = "done"
    /\ frame'[p].reqs[Len(frame'[p].reqs)].fail = NoFailure

\* C20 as claimed: getOrSet(k, v, ttl) writes only if k held no value when
\* the call started, the executions in which its read fails included; a key
\* that holds a value keeps that value and its expiry.
C20_NeverOverwrites ==
    [][\A p \in Callers :
          /\ (StartsGetOrSet(p) /\ kv[frame'[p].key].text # Nil) =>
                /\ frame'[p].pc = "done"
                /\ kv' = kv
          /\ AppliesSet(p) => kv[frame[p].key].text = Nil]_vars

\* C20 as amended: getOrSet writes only if its get gave undefined, that is
\* if k held no value or the read failed.  When k holds a value and the
\* store answers the read, the call sends nothing but the GET, returns the
\* value held and k keeps its value and its expiry; an entry that exists is
\* replaced, by v with ttl, only after a failed read.
C20_OverwritesOnlyAfterFailedRead ==
    [][\A p \in Callers :
          /\ (/\ StartsGetOrSet(p)
              /\ kv[frame'[p].key].text # Nil
              /\ frame'[p].reqs[1].fail = NoFailure) =>
                /\ frame'[p].pc = "done"
                /\ Len(frame'[p].reqs) = 1
                /\ ReturnedValue(frame'[p], JSONparse(kv[frame'[p].key].text).v)
                /\ kv' = kv
          /\ (StartsGetOrSet(p) /\ frame'[p].pc = "set") =>
                /\ frame'[p].cachedData = Undefined
                /\ \/ kv[frame'[p].key].text = Nil
                   \/ frame'[p].reqs[1].fail # NoFailure
          /\ frame[p].pc = "set" =>
                /\ frame[p].cachedData = Undefined
                /\ (kv[frame[p].key].text # Nil) => frame[p].reqs[1].fail # NoFailure
          /\ AppliesSet(p) =>
                kv' = [kv EXCEPT ![frame[p].key] =
                          Entry(JSONstringify(frame[p].value), frame[p].ttl.n)]]_vars

\* k1 holds null with two seconds to live, the read of getOrSet(k1, 0, 1)
\* failed and its SET is on the way
C20_Witness ==
    LET f == frame["c1"]
    IN  /\ f.op = "getOrSet"
        /\ f.pc = "set"
        /\ f.value = Num(0)
        /\ f.ttl = Ttl(1)
        /\ f.reqs[1].fail = ConnectionError
        /\ kv["k1"] = Entry(JSONstringify(Null), 2)
        /\ f.key = "k1"

=============================================================================
